---- MODULE Spec2Model ----
(***************************************************************************)
(* Goal accrual engine of gps-financeiro (src/js/utils.js).                *)
(*                                                                         *)
(* The store is the signed-in user's `goals` collection.  Every async      *)
(* function is cut at its awaits: the code between two awaits runs         *)
(* atomically (one JavaScript thread), a store read or write takes effect  *)
(* in its own step, and the clock may advance between any two steps.       *)
(***************************************************************************)
EXTENDS Integers, Sequences, FiniteSets, TLC

(* ---------------------------- bounds ----------------------------------- *)
\* goals in the store, invocations in one run, the last instant of the
\* clock, instants in one day, days on each side of day 0 in the reset test
\* transactions in an import, work sessions
MaxGoals == 2
MaxCalls == 2
MaxTime == 4
TicksPerDay == 2
DueSpan == 9
MaxTx == 2
MaxSessions == 2

(* ------------------------- JavaScript values --------------------------- *)
\* A value is a record of one shape: t is the typeof tag, k tells a finite
\* number from Infinity and NaN, n is the finite number, s the characters of
\* a string.
Str(s) == [t |-> "string", k |-> "fin", n |-> 0, s |-> s]
Num(n) == [t |-> "number", k |-> "fin", n |-> n, s |-> <<>>]
Infinity == [t |-> "number", k |-> "inf", n |-> 0, s |-> <<>>]
NaN == [t |-> "number", k |-> "nan", n |-> 0, s |-> <<>>]
Undefined == [t |-> "undefined", k |-> "fin", n |-> 0, s |-> <<>>]

\* !v
Falsy(v) ==
    CASE v.t = "string" -> v.s = <<>>
      [] v.t = "number" -> v.k = "nan" \/ (v.k = "fin" /\ v.n = 0)
      [] OTHER -> TRUE

\* a || b
OrElse(a, b) == IF Falsy(a) THEN b ELSE a

\* a + b on numbers (no negative infinity is ever produced here)
Plus(a, b) ==
    IF a.k = "nan" \/ b.k = "nan" THEN NaN
    ELSE IF a.k = "inf" \/ b.k = "inf" THEN Infinity
    ELSE Num(a.n + b.n)

\* String(v)
JSString(v) ==
    CASE v.t = "string" -> v.s
      [] v.t = "number" -> IF v.k = "nan" THEN <<"N", "a", "N">>
                           ELSE IF v.k = "inf" THEN <<"I", "n", "f">>
                           ELSE <<"5">>
      [] OTHER -> <<"u", "n", "d", "e", "f">>

ToLowerChar(c) ==
    CASE c = "R" -> "r"
      [] c = "E" -> "e"
      [] c = "N" -> "n"
      [] c = "I" -> "i"
      [] OTHER -> c

toLowerCase(s) == [i \in 1..Len(s) |-> ToLowerChar(s[i])]

RECURSIVE TrimStart(_)
TrimStart(s) == IF s # <<>> /\ Head(s) = " " THEN TrimStart(Tail(s)) ELSE s

RECURSIVE TrimEnd(_)
TrimEnd(s) ==
    IF s # <<>> /\ s[Len(s)] = " " THEN TrimEnd(SubSeq(s, 1, Len(s) - 1)) ELSE s

trim(s) == TrimEnd(TrimStart(s))

(* ------------------------------ clock ---------------------------------- *)
\* An instant is a number of ticks; tick 0 is Saturday 31 August 2024 00:00
\* local time, so that the first midnights crossed are a month boundary
\* (Sunday 1 September) and then a week boundary (Monday 2 September).
\* The calendar covers August and September 2024.  The run starts at
\* Saturday noon.
DayOf(t) == t \div TicksPerDay
TimeOfDay(t) == t % TicksPerDay

\* day index of the first day of the month of day d
MonthStart(d) == IF d >= 1 THEN 1 ELSE -30

\* Date.prototype.getDay: 0 is Sunday
getDay(t) == (DayOf(t) + 6) % 7

\* Date.prototype.getDate
getDate(t) == DayOf(t) - MonthStart(DayOf(t)) + 1

\* mutant: a day of the month below 1 does not roll into the month before
setDate_clamped(t, n) ==
    (MonthStart(DayOf(t)) + (IF n < 1 THEN 1 ELSE n) - 1) * TicksPerDay
        + TimeOfDay(t)

\* Date.prototype.setDate: day n of the month of t, rolling over into the
\* neighbouring month when n is outside the month
setDate(t, n) == (MonthStart(DayOf(t)) + n - 1) * TicksPerDay + TimeOfDay(t)

\* Date.prototype.setHours(0, 0, 0, 0)
setHours0(t) == DayOf(t) * TicksPerDay

getStartOfDay(date) == setHours0(date)

\* mutant: Sunday is not moved back to the Monday before it
getStartOfWeek_sundayAhead(date) ==
    LET day == getDay(date)
        diff == getDate(date) - day + 1
    IN  setHours0(setDate(date, diff))

getStartOfWeek(date) ==
    LET day == getDay(date)
        diff == getDate(date) - day + (IF day = 0 THEN -6 ELSE 1)
    IN  setHours0(setDate(date, diff))

getStartOfMonth(date) == setHours0(setDate(date, 1))

(* ------------------------------ inputs --------------------------------- *)
\* the goals the user creates: a category and a type
GoalInputs ==
    { <<Str(<<"r">>), "daily">>, <<Str(<<" ", "R">>), "weekly">>,
      <<Str(<<" ", "R">>), "monthly">>, <<Str(<<"r">>), "yearly">>,
      <<Str(<<"r", "e">>), "daily">>, <<Undefined, "weekly">> }

CallCategories ==
    { Str(<<"R", " ">>), Str(<<"r", "e">>), Str(<<" ">>),
      Str(<<>>), Undefined, Num(5) }

Amounts == { Num(1), Num(2), Num(0), Num(-1), NaN, Infinity, Str(<<"5">>) }

\* the inputs of the overlapping invocations
RaceGoalInputs == { <<Str(<<"r">>), "weekly">>, <<Str(<<" ", "R">>), "daily">> }
RaceCategories == { Str(<<"R", " ">>) }
RaceAmounts == { Num(1), Num(2) }

\* what the older goals have accumulated when the run starts
InitEarned == Num(3)

Calls == 1..MaxCalls

(* ------------------------------ state ---------------------------------- *)
VARIABLES
    now,      \* the clock
    uid,      \* auth.currentUser?.uid is set
    goals,    \* users/{uid}/goals, in creation order; the id is the index
    calls     \* the invocations of the operations that await the store

vars == <<now, uid, goals, calls>>

\* fn: the function invoked; data: its arguments when they are not an amount
\* and a category; t0: the instant of the invocation; log: the store calls it
\* has made; failedAt: the index in snap of the goal whose write was rejected
IdleCall ==
    [ pc |-> "idle", fn |-> "none", data |-> <<>>, amount |-> Undefined,
      category |-> Undefined,
      snap |-> <<>>, idx |-> 0, shouldReset |-> FALSE, result |-> "none",
      log |-> <<>>, failedAt |-> 0, t0 |-> 0 ]

\* mutant: the fields of the caller's object are spread last
goalData_spreadLast(goal, t) ==
    LET has(f) == f \in DOMAIN goal
    IN  [ category |-> goal.category, type |-> goal.type,
          current |-> IF has("current") THEN goal.current ELSE Num(0),
          lastReset |-> IF has("lastReset") THEN goal.lastReset ELSE t ]

\* goalData in addGoal: { ...goal, current: 0, createdAt, lastReset } with
\* both timestamps set by the server at instant t; of the fields of the
\* caller's object the category and the type are kept
goalData(goal, t) ==
    LET spread == [ f \in DOMAIN goal \cup {"current", "lastReset"} |->
                      IF f = "current" THEN Num(0)
                      ELSE IF f = "lastReset" THEN t
                      ELSE goal[f] ]
    IN  [ category |-> spread.category, type |-> spread.type,
          current |-> spread.current, lastReset |-> spread.lastReset ]

\* the document addGoal writes at instant t for a category and a type
addGoalData(goal, t) == goalData([category |-> goal[1], type |-> goal[2]], t)

\* a goal created at instant 0 on which InitEarned has been accumulated
\* since, or a goal created just now
GoalDocs(inputs) ==
    { [ addGoalData(goal, 0) EXCEPT !.current = InitEarned ] : goal \in inputs }
    \cup { addGoalData(goal, 1) : goal \in inputs }

\* the stores of up to max goals, the goals in the order of their creation
Stores(inputs, max) ==
    UNION { { gs \in [1..n -> GoalDocs(inputs)] :
                \A i \in 1..n, j \in 1..n :
                    i < j => gs[i].lastReset <= gs[j].lastReset } :
            n \in 0..max }

\* The user has signed in (or not), created the goals and earned on them.
InitWith(inputs, max) ==
    /\ now = 1
    /\ uid \in BOOLEAN
    /\ goals \in IF uid THEN Stores(inputs, max) ELSE {<<>>}
    /\ calls = [p \in Calls |-> IdleCall]

Init == InitWith(GoalInputs, MaxGoals)

(* ----------------------------- operations ------------------------------ *)
Tick ==
    /\ now < MaxTime
    /\ now' = now + 1
    /\ UNCHANGED <<uid, goals, calls>>

\* the list getGoals returns: createdAt descending, each with its id; every
\* stored goal has a lastReset, so the `|| new Date()` default is never taken
RECURSIVE Listing(_, _)
Listing(gs, i) ==
    IF i = 0 THEN <<>>
    ELSE <<[ id |-> i, category |-> gs[i].category, type |-> gs[i].type,
             current |-> gs[i].current, lastReset |-> gs[i].lastReset ]>>
         \o Listing(gs, i - 1)

getGoals == IF ~uid THEN <<>> ELSE Listing(goals, Len(goals))

\* mutant: the windows are compared with <= instead of <
checkGoalNeedsReset_orEqual(goal, t) ==
    CASE goal.type = "daily" ->
             getStartOfDay(goal.lastReset) <= getStartOfDay(t)
      [] goal.type = "weekly" ->
             getStartOfWeek(goal.lastReset) <= getStartOfWeek(t)
      [] goal.type = "monthly" ->
             getStartOfMonth(goal.lastReset) <= getStartOfMonth(t)
      [] OTHER -> FALSE

checkGoalNeedsReset(goal, t) ==
    CASE goal.type = "daily" ->
             getStartOfDay(goal.lastReset) < getStartOfDay(t)
      [] goal.type = "weekly" ->
             getStartOfWeek(goal.lastReset) < getStartOfWeek(t)
      [] goal.type = "monthly" ->
             getStartOfMonth(goal.lastReset) < getStartOfMonth(t)
      [] OTHER -> FALSE

\* mutant: only the type of the category is tested
CategoryInvalid_typeOnly(category) == category.t # "string"

\* the validation at the head of updateGoalsProgress
CategoryInvalid(category) == Falsy(category) \/ category.t # "string"

\* mutant: the isNaN test is missing
AmountInvalid_noNaN(amount) ==
    \/ amount.t # "number"
    \/ (amount.k = "fin" /\ amount.n <= 0)

\* mutant: the test of the sign is missing
AmountInvalid_noSign(amount) ==
    \/ amount.t # "number"
    \/ amount.k = "nan"

AmountInvalid(amount) ==
    \/ amount.t # "number"
    \/ (amount.k = "fin" /\ amount.n <= 0)
    \/ amount.k = "nan"

targetCategoryOf(category) == trim(toLowerCase(JSString(category)))

\* mutant: the goal's category is lower-cased but not trimmed
goalCatOf_noTrim(goal) == toLowerCase(JSString(OrElse(goal.category, Str(<<>>))))

goalCatOf(goal) == trim(toLowerCase(JSString(OrElse(goal.category, Str(<<>>)))))

\* mutant: the goal's category need only start with the target category
Matches_prefix(goal, category) ==
    LET g == goalCatOf(goal)
        c == targetCategoryOf(category)
    IN  Len(c) <= Len(g) /\ SubSeq(g, 1, Len(c)) = c

Matches(goal, category) == goalCatOf(goal) = targetCategoryOf(category)

\* the first index after i of a goal the loop does not skip
RECURSIVE NextMatch(_, _, _)
NextMatch(snap, i, category) ==
    IF i + 1 > Len(snap) THEN Len(snap) + 1
    ELSE IF Matches(snap[i + 1], category) THEN i + 1
    ELSE NextMatch(snap, i + 1, category)

\* updateGoalsProgress(amount, category) up to its first await
Invoke(p, amount, category) ==
    /\ calls[p].pc = "idle"
    /\ LET bad == CategoryInvalid(category) \/ AmountInvalid(amount)
       IN  calls' = [calls EXCEPT ![p] =
                [ @ EXCEPT !.pc = IF bad THEN "done" ELSE "getGoals",
                           !.fn = "updateGoalsProgress",
                           !.result = IF bad THEN "resolved" ELSE "none",
                           !.amount = amount,
                           !.category = category,
                           !.t0 = now ]]
    /\ UNCHANGED <<now, uid, goals>>

\* await getGoals(): the list is read
GetGoals(p) ==
    /\ calls[p].pc = "getGoals"
    /\ calls' = [calls EXCEPT ![p] =
            [ @ EXCEPT !.pc = "loop",
                       !.snap = getGoals,
                       !.idx = 0,
                       !.log = IF uid THEN Append(@, [op |-> "getGoals"])
                               ELSE @ ]]
    /\ UNCHANGED <<now, uid, goals>>

\* mutant: the rejection is caught and the loop runs over an empty list
GetGoalsFails_swallowed(p) ==
    /\ calls[p].pc = "getGoals"
    /\ uid
    /\ calls' = [calls EXCEPT ![p] =
            [ @ EXCEPT !.pc = "loop",
                       !.snap = <<>>,
                       !.log = Append(@, [op |-> "getGoalsFailed"]) ]]
    /\ UNCHANGED <<now, uid, goals>>

\* await getGoals(): getDocs rejects, and so does updateGoalsProgress
GetGoalsFails(p) ==
    /\ calls[p].pc = "getGoals"
    /\ uid
    /\ calls' = [calls EXCEPT ![p] =
            [ @ EXCEPT !.pc = "done",
                       !.result = "rejected",
                       !.log = Append(@, [op |-> "getGoalsFailed"]) ]]
    /\ UNCHANGED <<now, uid, goals>>

\* mutant: the reset is folded into the addition, no resetGoal call is made
Loop_foldsReset(p) ==
    /\ calls[p].pc = "loop"
    /\ LET c == calls[p]
           j == NextMatch(c.snap, c.idx, c.category)
       IN  IF j > Len(c.snap)
           THEN calls' = [calls EXCEPT ![p] =
                    [ @ EXCEPT !.pc = "done", !.result = "resolved",
                               !.idx = j ]]
           ELSE LET shouldReset == checkGoalNeedsReset(c.snap[j], now)
                IN  calls' = [calls EXCEPT ![p] =
                        [ @ EXCEPT !.pc = "updateGoal",
                                   !.idx = j,
                                   !.shouldReset = shouldReset ]]
    /\ UNCHANGED <<now, uid, goals>>

\* the for loop up to its next await: skip the goals of other categories,
\* decide the reset of the next matching one, or return
Loop(p) ==
    /\ calls[p].pc = "loop"
    /\ LET c == calls[p]
           j == NextMatch(c.snap, c.idx, c.category)
       IN  IF j > Len(c.snap)
           THEN calls' = [calls EXCEPT ![p] =
                    [ @ EXCEPT !.pc = "done", !.result = "resolved",
                               !.idx = j ]]
           ELSE LET shouldReset == checkGoalNeedsReset(c.snap[j], now)
                IN  calls' = [calls EXCEPT ![p] =
                        [ @ EXCEPT !.pc = IF shouldReset THEN "resetGoal"
                                          ELSE "updateGoal",
                                   !.idx = j,
                                   !.shouldReset = shouldReset ]]
    /\ UNCHANGED <<now, uid, goals>>

\* mutant: the reset leaves lastReset as it was
resetGoalWrite_keepsLastReset(gs, goalId, t) ==
    [gs EXCEPT ![goalId] = [ @ EXCEPT !.current = Num(0) ]]

\* mutant: lastReset is the start of the day of the reset
resetGoalWrite_startOfDay(gs, goalId, t) ==
    [gs EXCEPT ![goalId] = [ @ EXCEPT !.current = Num(0),
                                      !.lastReset = getStartOfDay(t) ]]

\* resetGoal(goalId): the document update
resetGoalWrite(gs, goalId, t) ==
    [gs EXCEPT ![goalId] = [ @ EXCEPT !.current = Num(0), !.lastReset = t ]]

\* await resetGoal(goal.id)
ResetGoal(p) ==
    /\ calls[p].pc = "resetGoal"
    /\ LET c == calls[p]
           goal == c.snap[c.idx]
       IN  /\ goals' = IF uid THEN resetGoalWrite(goals, goal.id, now)
                       ELSE goals
           /\ calls' = [calls EXCEPT ![p] =
                  [ @ EXCEPT !.pc = "updateGoal",
                             !.log = IF uid
                                     THEN Append(@, [ op |-> "resetGoal",
                                                      id |-> goal.id ])
                                     ELSE @ ]]
    /\ UNCHANGED <<now, uid>>

\* mutant: the amount is written without the goal's current
newValueOf_amountOnly(goal, shouldReset, amount) == Plus(Num(0), amount)

\* mutant: the fetched current is kept when the goal has been reset
newValueOf_keepsOld(goal, shouldReset, amount) ==
    Plus(OrElse(goal.current, Num(0)), amount)

\* the value updateGoalsProgress writes for the goal
newValueOf(goal, shouldReset, amount) ==
    LET oldValue == IF shouldReset THEN Num(0)
                    ELSE OrElse(goal.current, Num(0))
    IN  Plus(oldValue, amount)

\* updateGoal(goalId, data) with data = {current: value}
updateGoalWrite(gs, goalId, value) ==
    [gs EXCEPT ![goalId] = [ @ EXCEPT !.current = value ]]

\* mutant: the invocation stays at the write instead of going on with the loop
UpdateGoal_again(p) ==
    /\ calls[p].pc = "updateGoal"
    /\ Len(calls[p].log) < 2 * MaxGoals + 2
    /\ LET c == calls[p]
           goal == c.snap[c.idx]
           newValue == newValueOf(goal, c.shouldReset, c.amount)
       IN  /\ goals' = IF uid
                       THEN updateGoalWrite(goals, goal.id, newValue)
                       ELSE goals
           /\ calls' = [calls EXCEPT ![p] =
                  [ @ EXCEPT !.log = IF uid
                                     THEN Append(@, [ op |-> "updateGoal",
                                                      id |-> goal.id ])
                                     ELSE @ ]]
    /\ UNCHANGED <<now, uid>>

\* await updateGoal(goal.id, { current: newValue })
UpdateGoal(p) ==
    /\ calls[p].pc = "updateGoal"
    /\ LET c == calls[p]
           goal == c.snap[c.idx]
           newValue == newValueOf(goal, c.shouldReset, c.amount)
       IN  /\ goals' = IF uid
                       THEN updateGoalWrite(goals, goal.id, newValue)
                       ELSE goals
           /\ calls' = [calls EXCEPT ![p] =
                  [ @ EXCEPT !.pc = "loop",
                             !.log = IF uid
                                     THEN Append(@, [ op |-> "updateGoal",
                                                      id |-> goal.id ])
                                     ELSE @ ]]
    /\ UNCHANGED <<now, uid>>

\* updateDoc rejects inside resetGoal or updateGoal: nothing is written and
\* the rejection leaves the loop and updateGoalsProgress
WriteFails(p) ==
    /\ calls[p].pc \in {"resetGoal", "updateGoal"}
    /\ uid
    /\ calls' = [calls EXCEPT ![p] =
            [ @ EXCEPT !.pc = "done",
                       !.result = "rejected",
                       !.failedAt = calls[p].idx,
                       !.log = Append(@, [ op |-> "writeFailed",
                                           id |-> calls[p].snap[calls[p].idx].id ]) ]]
    /\ UNCHANGED <<now, uid, goals>>

Step(p) ==
    \/ GetGoals(p)
    \/ GetGoalsFails(p)
    \/ Loop(p)
    \/ ResetGoal(p)
    \/ UpdateGoal(p)
    \/ WriteFails(p)

\* A single invocation, with every kind of argument.
Next ==
    \/ Tick
    \/ \E amount \in Amounts, category \in CallCategories :
           Invoke(1, amount, category)
    \/ Step(1)

Spec == Init /\ [][Next]_vars

\* Overlapping invocations on goals of one category; the invocations are
\* numbered in the order they are made.
NextRace ==
    \/ Tick
    \/ \E p \in Calls, amount \in RaceAmounts, category \in RaceCategories :
           /\ \A q \in Calls : q < p => calls[q].pc # "idle"
           /\ Invoke(p, amount, category)
    \/ \E p \in Calls : Step(p)

InitRace == InitWith(RaceGoalInputs, MaxGoals - 1)

SpecRace == InitRace /\ [][NextRace]_vars

(* ------------------- checkAndResetGoals and resetGoal ------------------ *)
\* the first index after i of a goal whose reset is due at instant t
RECURSIVE NextDueGoal(_, _, _)
NextDueGoal(snap, i, t) ==
    IF i + 1 > Len(snap) THEN Len(snap) + 1
    ELSE IF checkGoalNeedsReset(snap[i + 1], t) THEN i + 1
    ELSE NextDueGoal(snap, i + 1, t)

\* checkAndResetGoals() up to its await
InvokeSweep(p) ==
    /\ calls[p].pc = "idle"
    /\ calls' = [calls EXCEPT ![p] =
            [ @ EXCEPT !.pc = "sweepGetGoals",
                       !.fn = "checkAndResetGoals",
                       !.t0 = now ]]
    /\ UNCHANGED <<now, uid, goals>>

\* await getGoals() in checkAndResetGoals
SweepGetGoals(p) ==
    /\ calls[p].pc = "sweepGetGoals"
    /\ calls' = [calls EXCEPT ![p] =
            [ @ EXCEPT !.pc = "sweepLoop",
                       !.snap = getGoals,
                       !.idx = 0,
                       !.log = IF uid THEN Append(@, [op |-> "getGoals"])
                               ELSE @ ]]
    /\ UNCHANGED <<now, uid, goals>>

\* getDocs rejects, and so does checkAndResetGoals
SweepGetGoalsFails(p) ==
    /\ calls[p].pc = "sweepGetGoals"
    /\ uid
    /\ calls' = [calls EXCEPT ![p] =
            [ @ EXCEPT !.pc = "done",
                       !.result = "rejected",
                       !.log = Append(@, [op |-> "getGoalsFailed"]) ]]
    /\ UNCHANGED <<now, uid, goals>>

\* mutant: the loop returns after its first reset
SweepLoop_firstOnly(p) ==
    /\ calls[p].pc = "sweepLoop"
    /\ LET c == calls[p]
           j == IF c.idx = 0 THEN NextDueGoal(c.snap, c.idx, now)
                ELSE Len(c.snap) + 1
       IN  calls' = [calls EXCEPT ![p] =
               [ @ EXCEPT !.pc = IF j > Len(c.snap) THEN "done"
                                 ELSE "sweepReset",
                          !.result = IF j > Len(c.snap) THEN "resolved"
                                     ELSE @,
                          !.idx = j ]]
    /\ UNCHANGED <<now, uid, goals>>

\* the for loop of checkAndResetGoals up to its next await: skip the goals
\* that are not due, or return
SweepLoop(p) ==
    /\ calls[p].pc = "sweepLoop"
    /\ LET c == calls[p]
           j == NextDueGoal(c.snap, c.idx, now)
       IN  calls' = [calls EXCEPT ![p] =
               [ @ EXCEPT !.pc = IF j > Len(c.snap) THEN "done"
                                 ELSE "sweepReset",
                          !.result = IF j > Len(c.snap) THEN "resolved"
                                     ELSE @,
                          !.idx = j ]]
    /\ UNCHANGED <<now, uid, goals>>

\* await resetGoal(goal.id) in checkAndResetGoals
SweepReset(p) ==
    /\ calls[p].pc = "sweepReset"
    /\ LET goal == calls[p].snap[calls[p].idx]
       IN  /\ goals' = IF uid THEN resetGoalWrite(goals, goal.id, now)
                       ELSE goals
           /\ calls' = [calls EXCEPT ![p] =
                  [ @ EXCEPT !.pc = "sweepLoop",
                             !.log = IF uid
                                     THEN Append(@, [ op |-> "resetGoal",
                                                      id |-> goal.id ])
                                     ELSE @ ]]
    /\ UNCHANGED <<now, uid>>

\* updateDoc rejects inside resetGoal: the rejection leaves the loop
SweepWriteFails(p) ==
    /\ calls[p].pc = "sweepReset"
    /\ uid
    /\ calls' = [calls EXCEPT ![p] =
            [ @ EXCEPT !.pc = "done",
                       !.result = "rejected",
                       !.failedAt = calls[p].idx,
                       !.log = Append(@, [ op |-> "writeFailed",
                                           id |-> calls[p].snap[calls[p].idx].id ]) ]]
    /\ UNCHANGED <<now, uid, goals>>

SweepStep(p) ==
    \/ SweepGetGoals(p)
    \/ SweepGetGoalsFails(p)
    \/ SweepLoop(p)
    \/ SweepReset(p)
    \/ SweepWriteFails(p)

\* resetGoal(goalId) called on its own, up to its await; idx holds goalId
InvokeResetGoal(p, goalId) ==
    /\ calls[p].pc = "idle"
    /\ goalId \in 1..Len(goals)
    /\ calls' = [calls EXCEPT ![p] =
            [ @ EXCEPT !.pc = IF uid THEN "directReset" ELSE "done",
                       !.fn = "resetGoal",
                       !.result = IF uid THEN "none" ELSE "resolved",
                       !.idx = goalId,
                       !.t0 = now ]]
    /\ UNCHANGED <<now, uid, goals>>

\* await updateDoc(...) in resetGoal
DirectReset(p) ==
    /\ calls[p].pc = "directReset"
    /\ goals' = resetGoalWrite(goals, calls[p].idx, now)
    /\ calls' = [calls EXCEPT ![p] =
            [ @ EXCEPT !.pc = "done",
                       !.result = "resolved",
                       !.log = Append(@, [ op |-> "resetGoal",
                                           id |-> calls[p].idx ]) ]]
    /\ UNCHANGED <<now, uid>>

\* updateDoc rejects, and so does resetGoal
DirectResetFails(p) ==
    /\ calls[p].pc = "directReset"
    /\ calls' = [calls EXCEPT ![p] =
            [ @ EXCEPT !.pc = "done",
                       !.result = "rejected",
                       !.log = Append(@, [ op |-> "writeFailed",
                                           id |-> calls[p].idx ]) ]]
    /\ UNCHANGED <<now, uid, goals>>

ResetStep(p) == DirectReset(p) \/ DirectResetFails(p)

(* --------------------- the reset test on its own ----------------------- *)
\* the instants of DueSpan days before and after the first day of the run
DueInstants == (0 - DueSpan * TicksPerDay)..((DueSpan + 1) * TicksPerDay - 1)

\* the values of goal.type: "undefined" stands for a goal without a type
DueTypes == {"daily", "weekly", "monthly", "yearly", "undefined"}

\* One goal of any type, last reset at any instant, and the clock at any
\* instant: checkAndResetGoals applies the reset test to the goal.
InitDue ==
    /\ now \in DueInstants
    /\ uid \in BOOLEAN
    /\ goals \in IF uid
                 THEN { <<[ category |-> Str(<<"r">>), type |-> type,
                            current |-> InitEarned, lastReset |-> t ]>> :
                        type \in DueTypes, t \in DueInstants }
                 ELSE {<<>>}
    /\ calls = [p \in Calls |-> IdleCall]

NextDue == InvokeSweep(1) \/ SweepStep(1)

SpecDue == InitDue /\ [][NextDue]_vars

(* ----------------------- one operation at a time ----------------------- *)
\* the inputs of the operations made one after the other
SeqGoalInputs == { <<Str(<<"r">>), "daily">>, <<Str(<<" ", "R">>), "weekly">>,
                   <<Str(<<"r", "e">>), "monthly">> }
SeqCategories == { Str(<<"R", " ">>) }
SeqAmounts == { Num(1), Num(2), Num(-1) }

\* addGoal(goal): the document is added with current 0 and lastReset now
AddGoal(goal) ==
    /\ uid
    /\ Len(goals) < MaxGoals
    /\ goals' = Append(goals, addGoalData(goal, now))
    /\ UNCHANGED <<now, uid, calls>>

\* no invocation is between its call and its return
Quiet == \A q \in Calls : calls[q].pc \in {"idle", "done"}

\* the invocations are numbered in the order they are made
InOrder(p) == \A q \in Calls : q < p => calls[q].pc # "idle"

\* addGoal, updateGoalsProgress, checkAndResetGoals and resetGoal, each
\* called when the one before it has returned.
NextSeq ==
    \/ Tick
    \/ \E goal \in SeqGoalInputs : Quiet /\ AddGoal(goal)
    \/ \E p \in Calls :
           /\ Quiet /\ InOrder(p)
           /\ \/ \E amount \in SeqAmounts, category \in SeqCategories :
                     Invoke(p, amount, category)
              \/ InvokeSweep(p)
              \/ \E goalId \in 1..MaxGoals : InvokeResetGoal(p, goalId)
    \/ \E p \in Calls : Step(p) \/ SweepStep(p) \/ ResetStep(p)

InitSeq == InitWith(SeqGoalInputs, 0)

SpecSeq == InitSeq /\ [][NextSeq]_vars

(* ------------------------ overlapping operations ----------------------- *)
\* the amounts of the overlapping operations, one of them invalid
OpsAmounts == { Num(1), Num(-1) }

\* updateGoalsProgress, checkAndResetGoals and resetGoal overlapping on the
\* goals addGoal has created, or creates meanwhile, up to MaxGoals - 1.
NextOps ==
    \/ Tick
    \/ \E goal \in RaceGoalInputs : Len(goals) < MaxGoals - 1 /\ AddGoal(goal)
    \/ \E p \in Calls :
           /\ InOrder(p)
           /\ \/ \E amount \in OpsAmounts, category \in RaceCategories :
                     Invoke(p, amount, category)
              \/ InvokeSweep(p)
              \/ \E goalId \in 1..MaxGoals : InvokeResetGoal(p, goalId)
    \/ \E p \in Calls : Step(p) \/ SweepStep(p) \/ ResetStep(p)

InitOps == InitWith(RaceGoalInputs, MaxGoals - 1)

SpecOps == InitOps /\ [][NextOps]_vars

(* ------------------- the exported updateGoal(goalId, data) ------------- *)
\* the data a caller of updateGoal passes: the fields to overwrite
UpdateData == { [current |-> Num(5)], [current |-> Num(0)], [type |-> "daily"] }

\* updateDoc(ref, data): the fields of data replace those of the document
updateDocWrite(gs, goalId, data) ==
    [gs EXCEPT ![goalId] =
        [ f \in DOMAIN @ |-> IF f \in DOMAIN data THEN data[f] ELSE @[f] ]]

\* updateGoal(goalId, data) called on its own
CallUpdateGoal(goalId, data) ==
    /\ uid
    /\ goalId \in 1..Len(goals)
    /\ goals' = updateDocWrite(goals, goalId, data)
    /\ UNCHANGED <<now, uid, calls>>

\* Every operation on goals the module exports: addGoal, updateGoal, and
\* one invocation of updateGoalsProgress, checkAndResetGoals or resetGoal.
NextApi ==
    \/ Tick
    \/ \E goal \in RaceGoalInputs : Len(goals) < MaxGoals - 1 /\ AddGoal(goal)
    \/ \E goalId \in 1..MaxGoals, data \in UpdateData :
           CallUpdateGoal(goalId, data)
    \/ \E amount \in OpsAmounts, category \in RaceCategories :
           Invoke(1, amount, category)
    \/ InvokeSweep(1)
    \/ \E goalId \in 1..MaxGoals : InvokeResetGoal(1, goalId)
    \/ Step(1) \/ SweepStep(1) \/ ResetStep(1)

SpecApi == InitOps /\ [][NextApi]_vars

(* ------------------- every store call returns successfully ------------- *)
\* the steps of an updateGoalsProgress invocation when no store call rejects
StepOK(p) ==
    \/ GetGoals(p)
    \/ Loop(p)
    \/ ResetGoal(p)
    \/ UpdateGoal(p)

\* One invocation on up to MaxGoals goals of its category.
NextLive ==
    \/ Tick
    \/ \E amount \in RaceAmounts, category \in RaceCategories :
           Invoke(1, amount, category)
    \/ StepOK(1)

InitLive == InitWith(RaceGoalInputs, MaxGoals)

\* An awaited store call that returns resumes the invocation: the event loop
\* runs the continuation of every settled promise.
SpecLive == InitLive /\ [][NextLive]_vars /\ WF_vars(StepOK(1))

(* ------------------- addTransaction and importUserData ----------------- *)
\* the goal objects a caller passes to addGoal or an export file holds: a
\* new goal, and a goal exported with what it had accumulated
GoalObjects ==
    { [ category |-> Str(<<"r">>), type |-> "daily" ],
      [ category |-> Str(<<" ", "R">>), type |-> "weekly",
        current |-> Num(3), lastReset |-> 0 ] }

\* the transactions: an income of the category of the goals
Transactions == { [ type |-> "income", category |-> Str(<<"r">>),
                    amount |-> Num(2) ] }

\* the sequences of at most n elements of S
RECURSIVE SeqsUpTo(_, _)
SeqsUpTo(S, n) ==
    IF n = 0 THEN {<<>>}
    ELSE SeqsUpTo(S, n - 1) \cup [1..n -> S]

\* the data importUserData is given
ImportData ==
    { [ transactions |-> txs, goals |-> gs, settings |-> s ] :
        txs \in SeqsUpTo(Transactions, MaxTx),
        gs \in SeqsUpTo(GoalObjects, MaxGoals - 1),
        s \in BOOLEAN }

\* addGoal(goal) with a goal object
AddGoalObject(goal) ==
    /\ uid
    /\ Len(goals) < MaxGoals
    /\ goals' = Append(goals, goalData(goal, now))
    /\ UNCHANGED <<now, uid, calls>>

\* addTransaction(transaction) up to its await; it throws when nobody is
\* signed in
InvokeAddTransaction(p, transaction) ==
    /\ calls[p].pc = "idle"
    /\ calls' = [calls EXCEPT ![p] =
            [ @ EXCEPT !.pc = IF uid THEN "addTransaction" ELSE "done",
                       !.fn = "addTransaction",
                       !.result = IF uid THEN "none" ELSE "rejected",
                       !.data = transaction,
                       !.t0 = now ]]
    /\ UNCHANGED <<now, uid, goals>>

\* await addDoc(...) in addTransaction: the transaction is stored
AddTransaction(p) ==
    /\ calls[p].pc = "addTransaction"
    /\ calls' = [calls EXCEPT ![p] =
            [ @ EXCEPT !.pc = "done",
                       !.result = "resolved",
                       !.log = Append(@, [op |-> "addTransaction"]) ]]
    /\ UNCHANGED <<now, uid, goals>>

\* addDoc rejects, and so does addTransaction
AddTransactionFails(p) ==
    /\ calls[p].pc = "addTransaction"
    /\ calls' = [calls EXCEPT ![p] =
            [ @ EXCEPT !.pc = "done",
                       !.result = "rejected",
                       !.log = Append(@, [op |-> "addDocFailed"]) ]]
    /\ UNCHANGED <<now, uid, goals>>

TransactionStep(p) == AddTransaction(p) \/ AddTransactionFails(p)

\* where importUserData awaits next once it is through its transactions,
\* and once it is through its goals
AfterGoals(data) == IF data.settings THEN "importSettings" ELSE "done"
AfterTransactions(data) ==
    IF Len(data.goals) > 0 THEN "importGoal" ELSE AfterGoals(data)

\* importUserData(data) up to its first await; it throws when nobody is
\* signed in
InvokeImport(p, data) ==
    /\ calls[p].pc = "idle"
    /\ Len(goals) + Len(data.goals) <= MaxGoals
    /\ LET first == IF ~uid THEN "done"
                    ELSE IF Len(data.transactions) > 0
                         THEN "importTransaction"
                         ELSE AfterTransactions(data)
       IN  calls' = [calls EXCEPT ![p] =
               [ @ EXCEPT !.pc = first,
                          !.fn = "importUserData",
                          !.result = IF ~uid THEN "rejected"
                                     ELSE IF first = "done" THEN "resolved"
                                     ELSE "none",
                          !.data = data,
                          !.idx = 0,
                          !.t0 = now ]]
    /\ UNCHANGED <<now, uid, goals>>

\* mutant: the imported transaction is credited to the goals of its category
ImportTransaction_accrues(p) ==
    /\ calls[p].pc = "importTransaction"
    /\ LET c == calls[p]
           tx == c.data.transactions[c.idx + 1]
           last == c.idx + 1 = Len(c.data.transactions)
           next == IF last THEN AfterTransactions(c.data)
                   ELSE "importTransaction"
       IN  /\ goals' = [ g \in 1..Len(goals) |->
                           IF Matches(goals[g], tx.category)
                           THEN [ goals[g] EXCEPT
                                    !.current = Plus(@, tx.amount) ]
                           ELSE goals[g] ]
           /\ calls' = [calls EXCEPT ![p] =
                  [ @ EXCEPT !.pc = next,
                             !.result = IF next = "done" THEN "resolved" ELSE @,
                             !.idx = IF last THEN 0 ELSE c.idx + 1,
                             !.log = Append(@, [op |-> "addTransaction"]) ]]
    /\ UNCHANGED <<now, uid>>

\* await addTransaction({...}) in importUserData: idx transactions have been
\* stored before this one
ImportTransaction(p) ==
    /\ calls[p].pc = "importTransaction"
    /\ LET c == calls[p]
           last == c.idx + 1 = Len(c.data.transactions)
           next == IF last THEN AfterTransactions(c.data)
                   ELSE "importTransaction"
       IN  calls' = [calls EXCEPT ![p] =
               [ @ EXCEPT !.pc = next,
                          !.result = IF next = "done" THEN "resolved" ELSE @,
                          !.idx = IF last THEN 0 ELSE c.idx + 1,
                          !.log = Append(@, [op |-> "addTransaction"]) ]]
    /\ UNCHANGED <<now, uid, goals>>

\* await addGoal(goal) in importUserData: idx goals have been stored before
\* this one
ImportGoal(p) ==
    /\ calls[p].pc = "importGoal"
    /\ LET c == calls[p]
           last == c.idx + 1 = Len(c.data.goals)
           next == IF last THEN AfterGoals(c.data) ELSE "importGoal"
       IN  /\ goals' = Append(goals, goalData(c.data.goals[c.idx + 1], now))
           /\ calls' = [calls EXCEPT ![p] =
                  [ @ EXCEPT !.pc = next,
                             !.result = IF next = "done" THEN "resolved" ELSE @,
                             !.idx = IF last THEN 0 ELSE c.idx + 1,
                             !.log = Append(@, [ op |-> "addGoal",
                                                 id |-> Len(goals) + 1 ]) ]]
    /\ UNCHANGED <<now, uid>>

\* await updateUserSettings(data.settings) in importUserData
ImportSettings(p) ==
    /\ calls[p].pc = "importSettings"
    /\ calls' = [calls EXCEPT ![p] =
            [ @ EXCEPT !.pc = "done",
                       !.result = "resolved",
                       !.log = Append(@, [op |-> "updateUserSettings"]) ]]
    /\ UNCHANGED <<now, uid, goals>>

\* addDoc or setDoc rejects, and so does importUserData
ImportFails(p) ==
    /\ calls[p].pc \in {"importTransaction", "importGoal", "importSettings"}
    /\ calls' = [calls EXCEPT ![p] =
            [ @ EXCEPT !.pc = "done",
                       !.result = "rejected",
                       !.log = Append(@, [op |-> "addDocFailed"]) ]]
    /\ UNCHANGED <<now, uid, goals>>

ImportStep(p) ==
    \/ ImportTransaction(p)
    \/ ImportGoal(p)
    \/ ImportSettings(p)
    \/ ImportFails(p)

\* the amount of the invocation that runs during an import
ImportAmounts == { Num(1) }

\* addGoal, then addTransaction or importUserData with one
\* updateGoalsProgress invocation running meanwhile.
NextImport ==
    \/ Tick
    \/ \E goal \in GoalObjects :
           (\A q \in Calls : calls[q].pc = "idle") /\ AddGoalObject(goal)
    \/ \E data \in ImportData : InvokeImport(1, data)
    \/ \E transaction \in Transactions : InvokeAddTransaction(1, transaction)
    \/ \E amount \in ImportAmounts, category \in RaceCategories :
           Invoke(2, amount, category)
    \/ ImportStep(1) \/ TransactionStep(1) \/ StepOK(2)

SpecImport == InitOps /\ [][NextImport]_vars

(* ------------------------------ endSession ----------------------------- *)
\* the category endSession credits, and a goal category that matches it
Receita == Str(<<"r", "e", "c", "e", "i", "t", "a">>)
SessionGoalInputs ==
    { <<Str(<<"R", "e", "c", "e", "i", "t", "a", " ">>), "daily">>,
      <<Str(<<"r", "e">>), "weekly">> }

\* the sessions and the earnings endSession is called with
SessionIds == 1..MaxSessions
Earnings == { Num(2), Num(0), Num(-1), NaN }

\* mutant: e >= 0
GreaterThanZero_orEqual(v) ==
    v.t = "number" /\ (v.k = "inf" \/ (v.k = "fin" /\ v.n >= 0))

\* e > 0 for a number e; NaN compares false
GreaterThanZero(v) ==
    v.t = "number" /\ (v.k = "inf" \/ (v.k = "fin" /\ v.n > 0))

\* endSession(sessionId, duration, earnings) up to its await; it returns
\* false when nobody is signed in
InvokeEndSession(p, sessionId, duration, earnings) ==
    /\ calls[p].pc = "idle"
    /\ calls' = [calls EXCEPT ![p] =
            [ @ EXCEPT !.pc = IF uid THEN "endSession" ELSE "done",
                       !.fn = "endSession",
                       !.result = IF uid THEN "none" ELSE "returnedFalse",
                       !.data = [ sessionId |-> sessionId,
                                  duration |-> duration,
                                  earnings |-> earnings ],
                       !.t0 = now ]]
    /\ UNCHANGED <<now, uid, goals>>

\* await updateDoc(session, {endTime, duration, earnings, status:
\* 'completed'}), then updateGoalsProgress(earnings, 'receita') up to its
\* first await when earnings > 0, or the return of true
EndSessionWrite(p) ==
    /\ calls[p].pc = "endSession"
    /\ LET c == calls[p]
           earnings == c.data.earnings
           update == [ op |-> "updateSession", id |-> c.data.sessionId,
                       status |-> "completed", earnings |-> earnings ]
           engine == [ op |-> "updateGoalsProgress", amount |-> earnings,
                       category |-> Receita ]
           bad == CategoryInvalid(Receita) \/ AmountInvalid(earnings)
       IN  IF GreaterThanZero(earnings)
           THEN calls' = [calls EXCEPT ![p] =
                    [ @ EXCEPT !.pc = IF bad THEN "done" ELSE "getGoals",
                               !.result = IF bad THEN "resolved" ELSE "none",
                               !.amount = earnings,
                               !.category = Receita,
                               !.log = @ \o <<update, engine>> ]]
           ELSE calls' = [calls EXCEPT ![p] =
                    [ @ EXCEPT !.pc = "done",
                               !.result = "resolved",
                               !.log = Append(@, update) ]]
    /\ UNCHANGED <<now, uid, goals>>

\* updateDoc rejects, and so does endSession
EndSessionWriteFails(p) ==
    /\ calls[p].pc = "endSession"
    /\ calls' = [calls EXCEPT ![p] =
            [ @ EXCEPT !.pc = "done",
                       !.result = "rejected",
                       !.log = Append(@, [op |-> "updateSessionFailed"]) ]]
    /\ UNCHANGED <<now, uid, goals>>

\* the steps of endSession: its own, and those of the updateGoalsProgress
\* invocation it awaits, whose return or rejection is its own
SessionStep(p) ==
    \/ EndSessionWrite(p)
    \/ EndSessionWriteFails(p)
    \/ Step(p)

\* endSession called on the sessions, one call after the other.
NextSession ==
    \/ Tick
    \/ \E p \in Calls, sessionId \in SessionIds, earnings \in Earnings :
           /\ Quiet /\ InOrder(p)
           /\ InvokeEndSession(p, sessionId, 1, earnings)
    \/ \E p \in Calls : SessionStep(p)

InitSession == InitWith(SessionGoalInputs, MaxGoals)

SpecSession == InitSession /\ [][NextSession]_vars

(* ---------------------- requireAuth and loginAsAdmin ------------------- *)
\* the documents admins/{uid} and users/{uid} of the user: the admin
\* document is absent, or its active field is true or false; the user
\* document is absent, or its active field is true, false or missing
AdminDocs == {"absent", "active", "inactive"}
UserDocs == {"absent", "active", "inactive", "noActiveField"}
AuthDocs == [admin : AdminDocs, user : UserDocs]

\* an asynchronous function ends with the value it returns
Return(p, value) ==
    [ calls[p] EXCEPT !.pc = "done", !.result = value ]

\* requireAuth() up to its first await, with the documents the store holds
InvokeRequireAuth(p, docs) ==
    /\ calls[p].pc = "idle"
    /\ calls' = [calls EXCEPT ![p] =
            [ @ EXCEPT !.pc = "waitForAuth",
                       !.fn = "requireAuth",
                       !.data = docs,
                       !.t0 = now ]]
    /\ UNCHANGED <<now, uid, goals>>

\* await waitForAuth(): null is returned when nobody is signed in
WaitForAuth(p) ==
    /\ calls[p].pc = "waitForAuth"
    /\ calls' = [calls EXCEPT ![p] =
            IF uid THEN [ @ EXCEPT !.pc = "getAdminDoc" ]
            ELSE Return(p, "null")]
    /\ UNCHANGED <<now, uid, goals>>

\* await getDoc(admins/{uid}): an active admin is returned at once
GetAdminDoc(p) ==
    /\ calls[p].pc = "getAdminDoc"
    /\ calls' = [calls EXCEPT ![p] =
            IF calls[p].data.admin = "active"
            THEN Return(p, "user")
            ELSE [ @ EXCEPT !.pc = "getUserDoc",
                            !.log = Append(@, [op |-> "getAdminDoc"]) ]]
    /\ UNCHANGED <<now, uid, goals>>

\* await getDoc(users/{uid}): a user whose active field is false is to be
\* signed out, any other is returned
GetUserDoc(p) ==
    /\ calls[p].pc = "getUserDoc"
    /\ calls' = [calls EXCEPT ![p] =
            IF calls[p].data.user = "inactive"
            THEN [ @ EXCEPT !.pc = "signOut",
                            !.log = Append(@, [op |-> "getUserDoc"]) ]
            ELSE Return(p, "user")]
    /\ UNCHANGED <<now, uid, goals>>

\* await signOut(auth), then null is returned
SignOut(p) ==
    /\ calls[p].pc = "signOut"
    /\ uid' = FALSE
    /\ calls' = [calls EXCEPT ![p] = Return(p, "null")]
    /\ UNCHANGED <<now, goals>>

\* getDoc or signOut rejects: the catch block logs a warning and the user is
\* returned
ApprovalCheckFails(p) ==
    /\ calls[p].pc \in {"getAdminDoc", "getUserDoc", "signOut"}
    /\ calls' = [calls EXCEPT ![p] =
            [ Return(p, "user") EXCEPT
                !.log = Append(@, [op |-> "checkFailed"]) ]]
    /\ UNCHANGED <<now, uid, goals>>

RequireAuthStep(p) ==
    \/ WaitForAuth(p)
    \/ GetAdminDoc(p)
    \/ GetUserDoc(p)
    \/ SignOut(p)
    \/ ApprovalCheckFails(p)

\* loginAsAdmin(email, password) up to its first await, with the admin
\* document the store holds for the account
InvokeLoginAsAdmin(p, admin) ==
    /\ calls[p].pc = "idle"
    /\ calls' = [calls EXCEPT ![p] =
            [ @ EXCEPT !.pc = "signIn",
                       !.fn = "loginAsAdmin",
                       !.data = [admin |-> admin],
                       !.t0 = now ]]
    /\ UNCHANGED <<now, uid, goals>>

\* await signInWithEmailAndPassword(...): the account is signed in
SignIn(p) ==
    /\ calls[p].pc = "signIn"
    /\ uid' = TRUE
    /\ calls' = [calls EXCEPT ![p] =
            [ @ EXCEPT !.pc = "loginGetAdminDoc",
                       !.log = Append(@, [op |-> "signIn"]) ]]
    /\ UNCHANGED <<now, goals>>

\* await getDoc(admins/{uid}): an account that is not an active admin is to
\* be signed out
LoginGetAdminDoc(p) ==
    /\ calls[p].pc = "loginGetAdminDoc"
    /\ calls' = [calls EXCEPT ![p] =
            [ @ EXCEPT !.pc = IF calls[p].data.admin = "active"
                              THEN "setLastLogin" ELSE "loginSignOut",
                       !.log = Append(@, [op |-> "getAdminDoc"]) ]]
    /\ UNCHANGED <<now, uid, goals>>

\* await signOut(auth), then {success: false} is returned
LoginSignOut(p) ==
    /\ calls[p].pc = "loginSignOut"
    /\ uid' = FALSE
    /\ calls' = [calls EXCEPT ![p] = Return(p, "failure")]
    /\ UNCHANGED <<now, goals>>

\* await setDoc(admins/{uid}, {lastLogin}), then {success: true, ...}
SetLastLogin(p) ==
    /\ calls[p].pc = "setLastLogin"
    /\ calls' = [calls EXCEPT ![p] =
            [ Return(p, "success") EXCEPT
                !.log = Append(@, [op |-> "setLastLogin"]) ]]
    /\ UNCHANGED <<now, uid, goals>>

\* any awaited call rejects: the catch block returns {success: false}
LoginFails(p) ==
    /\ calls[p].pc \in {"signIn", "loginGetAdminDoc", "loginSignOut",
                        "setLastLogin"}
    /\ calls' = [calls EXCEPT ![p] =
            [ Return(p, "failure") EXCEPT
                !.log = Append(@, [ op |-> "loginFailed",
                                    at |-> calls[p].pc ]) ]]
    /\ UNCHANGED <<now, uid, goals>>

LoginStep(p) ==
    \/ SignIn(p)
    \/ LoginGetAdminDoc(p)
    \/ LoginSignOut(p)
    \/ SetLastLogin(p)
    \/ LoginFails(p)

\* The pages call requireAuth when they load; the admin login page, shown
\* when nobody is signed in, calls loginAsAdmin.
NextAuth ==
    \/ \E p \in Calls :
           /\ Quiet /\ InOrder(p)
           /\ \/ \E docs \in AuthDocs : InvokeRequireAuth(p, docs)
              \/ \E admin \in AdminDocs : ~uid /\ InvokeLoginAsAdmin(p, admin)
    \/ \E p \in Calls : RequireAuthStep(p) \/ LoginStep(p)

InitAuth == InitWith({}, 0)

SpecAuth == InitAuth /\ [][NextAuth]_vars

(* ============================== properties ============================= *)
Done(p) == calls[p].pc = "done"
Resolved(p) == Done(p) /\ calls[p].result = "resolved"

\* the invocation p has had the store apply a write of kind op to goal g
Wrote(p, op, g) ==
    \E i \in 1..Len(calls[p].log) :
        calls[p].log[i].op = op /\ calls[p].log[i].id = g

Touched(p, g) == Wrote(p, "resetGoal", g) \/ Wrote(p, "updateGoal", g)

\* the entries of a log that are writes
NoWrites(log) ==
    \A i \in 1..Len(log) : log[i].op \notin {"resetGoal", "updateGoal"}

Alone(p) == \A q \in Calls \ {p} : calls[q].pc = "idle"

\* goal g as the invocation p fetched it
Fetched(p, g) == \E j \in 1..Len(calls[p].snap) : calls[p].snap[j].id = g
SnapOf(p, g) ==
    calls[p].snap[CHOOSE j \in 1..Len(calls[p].snap) : calls[p].snap[j].id = g]

WindowTypes == {"daily", "weekly", "monthly"}

WindowStartOf(type, t) ==
    CASE type = "daily" -> getStartOfDay(t)
      [] type = "weekly" -> getStartOfWeek(t)
      [] type = "monthly" -> getStartOfMonth(t)

\* the arguments the claims call invalid
BadAmount(amount) ==
    \/ amount.t # "number"
    \/ amount.k = "nan"
    \/ (amount.k = "fin" /\ amount.n <= 0)

BadCategory(category) == category.t # "string" \/ category.s = <<>>

FetchFailed(c) == \E i \in 1..Len(c.log) : c.log[i].op = "getGoalsFailed"

(* ---- C1 ---- *)
\* p and q have both fetched goal g with the same current and both added
\* their amount to it without a reset, and no other invocation wrote g
SameRead(p, q, g) ==
    /\ p # q /\ Resolved(p) /\ Resolved(q)
    /\ Fetched(p, g) /\ Fetched(q, g)
    /\ SnapOf(p, g).current = SnapOf(q, g).current
    /\ Wrote(p, "updateGoal", g) /\ Wrote(q, "updateGoal", g)
    /\ ~Wrote(p, "resetGoal", g) /\ ~Wrote(q, "resetGoal", g)
    /\ \A r \in Calls \ {p, q} : ~Touched(r, g)

\* C1: when two invocations that match the same goal have both read the same
\* stored current c, the goal ends with c plus the amount of one of them only,
\* never with c plus both amounts: one update is lost.
C1_LostUpdate ==
    \A p \in Calls, q \in Calls, g \in 1..Len(goals) :
        SameRead(p, q, g) =>
            LET c == SnapOf(p, g).current
            IN  /\ goals[g].current \in { Plus(c, calls[p].amount),
                                          Plus(c, calls[q].amount) }
                /\ goals[g].current #
                       Plus(Plus(c, calls[p].amount), calls[q].amount)

\* two invocations with different amounts have read current = 3 and the goal
\* holds 3 plus the first one's amount
C1_Witness ==
    \E p \in Calls, q \in Calls, g \in 1..Len(goals) :
        /\ SameRead(p, q, g)
        /\ SnapOf(p, g).current = Num(3)
        /\ calls[p].amount = Num(1) /\ calls[q].amount = Num(2)
        /\ goals[g].current = Num(4)

(* ---- C2 ---- *)
\* C2: after a single invocation that resolved, every matching goal whose
\* window start of lastReset was strictly earlier than the window start of the
\* instant of the invocation holds current = amount, and its lastReset is an
\* instant of the invocation (not before its start, not after now).
C2_ResetThenAccrue ==
    \A p \in Calls :
        (Resolved(p) /\ Alone(p)) =>
            \A j \in 1..Len(calls[p].snap) :
                LET goal == calls[p].snap[j]
                IN  ( /\ Matches(goal, calls[p].category)
                      /\ goal.type \in WindowTypes
                      /\ WindowStartOf(goal.type, goal.lastReset)
                             < WindowStartOf(goal.type, calls[p].t0) )
                    => /\ goals[goal.id].current = calls[p].amount
                       /\ calls[p].t0 <= goals[goal.id].lastReset
                       /\ goals[goal.id].lastReset <= now

\* a weekly goal that held 3 since Saturday holds the amount 2 after an
\* invocation made on Monday, and its lastReset is that Monday instant
C2_Witness ==
    \E p \in Calls :
        /\ Resolved(p) /\ Alone(p)
        /\ \E j \in 1..Len(calls[p].snap) :
               LET goal == calls[p].snap[j]
               IN  /\ Matches(goal, calls[p].category)
                   /\ goal.type = "weekly"
                   /\ goal.current = Num(3)
                   /\ WindowStartOf(goal.type, goal.lastReset)
                          < WindowStartOf(goal.type, calls[p].t0)
                   /\ calls[p].amount = Num(2)
                   /\ goals[goal.id].current = Num(2)
                   /\ goals[goal.id].lastReset = calls[p].t0

(* ---- C3 ---- *)
\* C3: after a single invocation that resolved, every matching goal whose
\* lastReset lies in the same window as now holds its previous current plus
\* the amount, and its lastReset is unchanged.
C3_AccrueNoReset ==
    \A p \in Calls :
        (Resolved(p) /\ Alone(p)) =>
            \A j \in 1..Len(calls[p].snap) :
                LET goal == calls[p].snap[j]
                IN  ( /\ Matches(goal, calls[p].category)
                      /\ goal.type \in WindowTypes
                      /\ WindowStartOf(goal.type, goal.lastReset)
                             = WindowStartOf(goal.type, now) )
                    => /\ goals[goal.id].current
                              = Plus(goal.current, calls[p].amount)
                       /\ goals[goal.id].lastReset = goal.lastReset

\* a daily goal that held 3 since Saturday 00:00 holds 4 after an invocation
\* with amount 1 made later the same day, and its lastReset is still 00:00
C3_Witness ==
    \E p \in Calls :
        /\ Resolved(p) /\ Alone(p)
        /\ \E j \in 1..Len(calls[p].snap) :
               LET goal == calls[p].snap[j]
               IN  /\ Matches(goal, calls[p].category)
                   /\ goal.type = "daily"
                   /\ goal.current = Num(3)
                   /\ goal.lastReset < calls[p].t0
                   /\ getStartOfDay(goal.lastReset) = getStartOfDay(now)
                   /\ calls[p].amount = Num(1)
                   /\ goals[goal.id].current = Num(4)
                   /\ goals[goal.id].lastReset = goal.lastReset

(* ---- C4 ---- *)
\* C4: an invocation never writes to a fetched goal whose normalized category
\* differs from its normalized category argument; while it is the only
\* invocation, such a goal keeps the current and lastReset it was fetched
\* with.
C4_NonMatchFrame ==
    \A p \in Calls :
        \A j \in 1..Len(calls[p].snap) :
            LET goal == calls[p].snap[j]
            IN  goalCatOf(goal) # targetCategoryOf(calls[p].category)
                => /\ ~Touched(p, goal.id)
                   /\ Alone(p) =>
                          /\ goals[goal.id].current = goal.current
                          /\ goals[goal.id].lastReset = goal.lastReset

\* an invocation has resolved after updating a goal of its category, and
\* a goal of another category for which a reset was due is as it was
C4_Witness ==
    \E p \in Calls :
        /\ Resolved(p) /\ Alone(p)
        /\ \E j, k \in 1..Len(calls[p].snap) :
               LET goal == calls[p].snap[j]
                   other == calls[p].snap[k]
               IN  /\ goalCatOf(goal) # targetCategoryOf(calls[p].category)
                   /\ checkGoalNeedsReset(goal, calls[p].t0)
                   /\ goals[goal.id].current = Num(3)
                   /\ goals[goal.id].lastReset = goal.lastReset
                   /\ Wrote(p, "updateGoal", other.id)

(* ---- C5 ---- *)
\* C5: when the write for one matching goal has failed, the invocation still
\* ends with every later matching goal of the list updated.
C5_ContinueOnError ==
    \A p \in Calls :
        (Done(p) /\ calls[p].failedAt # 0) =>
            \A j \in 1..Len(calls[p].snap) :
                (j > calls[p].failedAt
                   /\ Matches(calls[p].snap[j], calls[p].category))
                => Wrote(p, "updateGoal", calls[p].snap[j].id)

(* ---- C6 ---- *)
\* C6: an invocation whose amount is 0, negative, NaN or not a number has
\* returned as soon as it is made, has made no store call (no fetch, no
\* write), and the step that makes it leaves every goal unchanged.
C6_RejectsBadAmount ==
    [][ \A p \in Calls :
            (calls'[p].pc # "idle" /\ BadAmount(calls'[p].amount))
            => /\ calls'[p].pc = "done"
               /\ calls'[p].log = <<>>
               /\ calls[p].pc = "idle" => goals' = goals ]_vars

\* an invocation with amount NaN and the category of a stored goal has
\* returned without a store call
C6_Witness ==
    \E p \in Calls :
        /\ Done(p)
        /\ calls[p].amount = NaN
        /\ calls[p].log = <<>>
        /\ \E g \in 1..Len(goals) : Matches(goals[g], calls[p].category)

(* ---- C7 ---- *)
\* C7: an invocation whose amount is +Infinity fails validation: it has
\* returned as soon as it is made and has made no store call.
C7_RejectsInfinity ==
    \A p \in Calls :
        (calls[p].pc # "idle" /\ calls[p].amount = Infinity)
        => (Done(p) /\ calls[p].log = <<>>)

(* ---- C8 ---- *)
\* C8: an invocation whose category is the empty string or not a string has
\* returned as soon as it is made, whatever its amount, has made no store
\* call, and the step that makes it leaves every goal unchanged.
C8_RejectsBadCategory ==
    [][ \A p \in Calls :
            (calls'[p].pc # "idle" /\ BadCategory(calls'[p].category))
            => /\ calls'[p].pc = "done"
               /\ calls'[p].log = <<>>
               /\ calls[p].pc = "idle" => goals' = goals ]_vars

\* an invocation with a valid amount and the empty string as category has
\* returned without a store call, the store holding a goal
C8_Witness ==
    \E p \in Calls :
        /\ Done(p)
        /\ calls[p].amount = Num(1)
        /\ calls[p].category = Str(<<>>)
        /\ calls[p].log = <<>>
        /\ Len(goals) > 0

(* ---- C9 ---- *)
\* C9: an invocation that rejected its amount or its category ends with an
\* outcome other than the one of a successful invocation.
C9_ValidationSurfaced ==
    \A p \in Calls :
        (Done(p) /\ (BadAmount(calls[p].amount)
                       \/ BadCategory(calls[p].category)))
        => calls[p].result # "resolved"

(* ---- C10 ---- *)
\* C10: an invocation whose goal list fetch failed has ended, rejected, and
\* has made no write; the step in which the fetch fails leaves every goal
\* unchanged.
C10_ReadFailureAborts ==
    [][ \A p \in Calls :
            FetchFailed(calls'[p])
            => /\ calls'[p].pc = "done"
               /\ calls'[p].result = "rejected"
               /\ NoWrites(calls'[p].log)
               /\ ~FetchFailed(calls[p]) => goals' = goals ]_vars

\* the fetch of an invocation matching a stored goal has failed and the
\* invocation is rejected
C10_Witness ==
    \E p \in Calls :
        /\ Done(p)
        /\ FetchFailed(calls[p])
        /\ calls[p].result = "rejected"
        /\ \E g \in 1..Len(goals) :
               /\ Matches(goals[g], calls[p].category)
               /\ goals[g].current = Num(3)

(* ---- C11 ---- *)
\* entry i of the log of p is a write of kind op
IsWrite(p, i, op) == i \in 1..Len(calls[p].log) /\ calls[p].log[i].op = op

\* C11: when the reset of a matching goal is due, the invocation makes two
\* separate writes in this order: the reset, after which the goal holds
\* current 0, and only once it has completed the write of the amount. The
\* addition never comes first and the two are never folded into one write.
C11_ResetBeforeAdd ==
    \A p \in Calls :
        \A i \in 1..Len(calls[p].log) :
            /\ IsWrite(p, i, "updateGoal") =>
                  LET g == calls[p].log[i].id
                  IN  /\ checkGoalNeedsReset(SnapOf(p, g), calls[p].t0)
                          => (IsWrite(p, i - 1, "resetGoal")
                                /\ calls[p].log[i - 1].id = g)
                      /\ \A k \in (i + 1)..Len(calls[p].log) :
                             ~(IsWrite(p, k, "resetGoal")
                                 /\ calls[p].log[k].id = g)
            /\ IsWrite(p, i, "resetGoal") =>
                  LET g == calls[p].log[i].id
                  IN  IF i = Len(calls[p].log)
                      THEN /\ calls[p].pc = "updateGoal"
                           /\ Alone(p) => /\ goals[g].current = Num(0)
                                          /\ goals[g].lastReset >= calls[p].t0
                      ELSE /\ calls[p].log[i + 1].op
                                  \in {"updateGoal", "writeFailed"}
                           /\ calls[p].log[i + 1].id = g

\* the reset of a due goal that held 3 has been written and the goal holds 0;
\* the write of the amount 2 is still to come
C11_Witness ==
    \E p \in Calls :
        /\ calls[p].pc = "updateGoal"
        /\ calls[p].amount = Num(2)
        /\ IsWrite(p, Len(calls[p].log), "resetGoal")
        /\ LET g == calls[p].log[Len(calls[p].log)].id
           IN  /\ SnapOf(p, g).current = Num(3)
               /\ checkGoalNeedsReset(SnapOf(p, g), calls[p].t0)
               /\ goals[g].current = Num(0)
               /\ ~Wrote(p, "updateGoal", g)

(* ---- C12 ---- *)
\* the characters of a category; a goal without a category has none
TextOf(category) == IF category.t = "string" THEN category.s ELSE <<>>

\* the positions of the characters of s that are not spaces
Inked(s) == { i \in 1..Len(s) : s[i] # " " }

\* s without its surrounding spaces, in lower case
Normalized(s) ==
    IF Inked(s) = {} THEN <<>>
    ELSE LET first == CHOOSE i \in Inked(s) : \A k \in Inked(s) : i <= k
             last == CHOOSE i \in Inked(s) : \A k \in Inked(s) : k <= i
         IN  [ i \in 1..(last - first + 1) |-> ToLowerChar(s[first + i - 1]) ]

\* C12: an invocation that resolved has written the current of a goal of its
\* list if and only if the goal's category and the invocation's category are
\* the same text once surrounding spaces are removed and letters lower-cased;
\* so a category that is a proper prefix of the goal's never matches.
C12_ExactAfterNormalization ==
    \A p \in Calls :
        (Resolved(p) /\ Alone(p) /\ uid /\ calls[p].category.t = "string") =>
            \A j \in 1..Len(calls[p].snap) :
                LET goal == calls[p].snap[j]
                IN  Wrote(p, "updateGoal", goal.id)
                    <=> ( /\ ~BadAmount(calls[p].amount)
                          /\ ~BadCategory(calls[p].category)
                          /\ Normalized(TextOf(goal.category))
                                 = Normalized(TextOf(calls[p].category)) )

\* the invocation with category "R " has updated the goal of category " R"
\* and has left alone the goal of category "re", which "r" is a prefix of
C12_Witness ==
    \E p \in Calls :
        /\ Resolved(p) /\ Alone(p)
        /\ calls[p].category = Str(<<"R", " ">>)
        /\ \E i \in 1..Len(calls[p].snap), j \in 1..Len(calls[p].snap) :
               /\ calls[p].snap[i].category = Str(<<" ", "R">>)
               /\ Wrote(p, "updateGoal", calls[p].snap[i].id)
               /\ calls[p].snap[j].category = Str(<<"r", "e">>)
               /\ ~Touched(p, calls[p].snap[j].id)

(* ---- C13 ---- *)
\* The calendar of the claims. Day 0 is Saturday 31 August 2024, so the
\* Mondays are the days 2, 9, -5, ... and the first days of the months around
\* it are the days -30 (1 August), 1 (1 September) and 31 (1 October).
DayLength == TicksPerDay
IsMidnight(m) == m % DayLength = 0
IsMonday(m) == IsMidnight(m) /\ (m \div DayLength) % 7 = 2
IsFirstOfMonth(m) == IsMidnight(m) /\ (m \div DayLength) \in {-30, 1, 31}

\* the days of the longest window of the type
WindowDays(type) ==
    CASE type = "daily" -> 1 [] type = "weekly" -> 7 [] type = "monthly" -> 31

\* the latest instant that starts a window of the type and is not after t
WindowBegin(type, t) ==
    LET starts == { m \in (t - WindowDays(type) * DayLength + 1)..t :
                      CASE type = "daily" -> IsMidnight(m)
                        [] type = "weekly" -> IsMonday(m)
                        [] type = "monthly" -> IsFirstOfMonth(m) }
    IN  CHOOSE m \in starts : \A k \in starts : k <= m

Due(goal, t) ==
    /\ goal.type \in WindowTypes
    /\ WindowBegin(goal.type, goal.lastReset) < WindowBegin(goal.type, t)

\* C13: checkAndResetGoals has reset a goal of its list exactly when the
\* goal's type is daily, weekly or monthly and the day, ISO week or month of
\* its lastReset starts strictly before the one of now; a goal last reset in
\* the window of now, and a goal of an unknown or missing type, is not reset.
C13_ResetDueTest ==
    \A p \in Calls :
        (Resolved(p) /\ calls[p].fn = "checkAndResetGoals") =>
            \A j \in 1..Len(calls[p].snap) :
                LET goal == calls[p].snap[j]
                IN  Wrote(p, "resetGoal", goal.id) <=> Due(goal, now)

\* a weekly goal last reset on Sunday 1 September has been reset on Monday 2
\* September, though both days are in the same month
C13_Witness ==
    \E p \in Calls :
        /\ Resolved(p) /\ calls[p].fn = "checkAndResetGoals"
        /\ now = 2 * TicksPerDay
        /\ \E j \in 1..Len(calls[p].snap) :
               /\ calls[p].snap[j].type = "weekly"
               /\ calls[p].snap[j].lastReset = TicksPerDay + 1
               /\ Wrote(p, "resetGoal", calls[p].snap[j].id)
               /\ goals[calls[p].snap[j].id].current = Num(0)

(* ---- C14 ---- *)
\* what goal g has earned after the store calls i.. of invocation p, having
\* earned acc before them: a reset starts again from 0, an update adds the
\* amount of the invocation
RECURSIVE EarnedAfterLog(_, _, _, _)
EarnedAfterLog(p, i, g, acc) ==
    IF i > Len(calls[p].log) THEN acc
    ELSE LET e == calls[p].log[i]
             hit == e.op \in {"resetGoal", "updateGoal"} /\ e.id = g
         IN  EarnedAfterLog(p, i + 1, g,
                 IF hit /\ e.op = "resetGoal" THEN Num(0)
                 ELSE IF hit THEN Plus(acc, calls[p].amount)
                 ELSE acc)

\* the same after the invocations p, p + 1, ..., made one after the other
RECURSIVE EarnedAfterCalls(_, _, _)
EarnedAfterCalls(p, g, acc) ==
    IF p > MaxCalls THEN acc
    ELSE EarnedAfterCalls(p + 1, g, EarnedAfterLog(p, 1, g, acc))

\* the sum of the amounts applied to goal g since its last reset
EarnedSinceReset(g) == EarnedAfterCalls(1, g, Num(0))

\* the invocations that have reset goal g
Resetters(g) == { p \in Calls : Wrote(p, "resetGoal", g) }

\* C14: when the operations are made one after the other, each goal's
\* current is the sum of the amounts of the accepted matching invocations
\* applied to it since its last reset, a reset that gave the goal the
\* lastReset it has now.
C14_AccumulationSequential ==
    Quiet =>
        \A g \in 1..Len(goals) :
            /\ goals[g].current = EarnedSinceReset(g)
            /\ Resetters(g) # {} =>
                   LET p == CHOOSE q \in Resetters(g) :
                                \A r \in Resetters(g) : r <= q
                   IN  /\ calls[p].t0 <= goals[g].lastReset
                       /\ goals[g].lastReset <= now

\* a goal earned 1, its window ended, and the next invocation reset it and
\* added 2: the goal holds 2
C14_Witness ==
    /\ Quiet
    /\ \E g \in 1..Len(goals) :
           /\ calls[1].fn = "updateGoalsProgress"
           /\ calls[1].amount = Num(1)
           /\ Wrote(1, "updateGoal", g) /\ ~Wrote(1, "resetGoal", g)
           /\ calls[2].fn = "updateGoalsProgress"
           /\ calls[2].amount = Num(2)
           /\ Wrote(2, "resetGoal", g) /\ Wrote(2, "updateGoal", g)
           /\ goals[g].current = Num(2)

(* ---- C15 ---- *)
\* p is a checkAndResetGoals invocation that resolved
Swept(p) == Resolved(p) /\ calls[p].fn = "checkAndResetGoals"

\* no invocation has been made after p
Latest(p) == \A q \in Calls : q > p => calls[q].pc = "idle"

\* C15: one checkAndResetGoals call has written current 0 and lastReset =
\* an instant of the call to every goal of its list that was due when it was
\* made, whatever the goal's category, and has written nothing to a goal that
\* is not due: such a goal keeps its current and its lastReset.
C15_SweepResetsDueOnly ==
    \A p \in Calls :
        Swept(p) =>
            \A j \in 1..Len(calls[p].snap) :
                LET goal == calls[p].snap[j]
                IN  /\ Due(goal, calls[p].t0) => Wrote(p, "resetGoal", goal.id)
                    /\ ~Due(goal, now) => ~Wrote(p, "resetGoal", goal.id)
                    /\ ~Wrote(p, "updateGoal", goal.id)
                    /\ Latest(p) =>
                         IF Wrote(p, "resetGoal", goal.id)
                         THEN /\ goals[goal.id].current = Num(0)
                              /\ calls[p].t0 <= goals[goal.id].lastReset
                              /\ goals[goal.id].lastReset <= now
                         ELSE /\ goals[goal.id].current = goal.current
                              /\ goals[goal.id].lastReset = goal.lastReset

\* on Sunday 1 September the call has reset the monthly goal of category
\* "re" and has left the weekly goal of category " R" with the 1 it earned
C15_Witness ==
    \E p \in Calls :
        /\ Swept(p) /\ Latest(p)
        /\ \E i \in 1..Len(calls[p].snap), j \in 1..Len(calls[p].snap) :
               LET due == calls[p].snap[i]
                   other == calls[p].snap[j]
               IN  /\ due.type = "monthly"
                   /\ due.category = Str(<<"r", "e">>)
                   /\ Due(due, calls[p].t0)
                   /\ Wrote(p, "resetGoal", due.id)
                   /\ goals[due.id].lastReset >= calls[p].t0
                   /\ other.type = "weekly"
                   /\ other.category = Str(<<" ", "R">>)
                   /\ ~Touched(p, other.id)
                   /\ goals[other.id].current = Num(1)

(* ---- C16 ---- *)
\* the number of resets of goal g among the store calls i.. of invocation p
RECURSIVE ResetsOf(_, _, _)
ResetsOf(p, i, g) ==
    IF i > Len(calls[p].log) THEN 0
    ELSE (IF calls[p].log[i].op = "resetGoal" /\ calls[p].log[i].id = g
          THEN 1 ELSE 0) + ResetsOf(p, i + 1, g)

\* C16: when checkAndResetGoals is called twice in succession, the second
\* call resets no goal whose window has not changed since the first call was
\* made, and over the two calls such a goal is reset at most once.
C16_SweepIdempotent ==
    \A p \in Calls, q \in Calls :
        (q = p + 1 /\ Swept(p) /\ Swept(q)) =>
            \A j \in 1..Len(calls[q].snap) :
                LET goal == calls[q].snap[j]
                IN  ( goal.type \in WindowTypes
                        => WindowBegin(goal.type, calls[p].t0)
                               = WindowBegin(goal.type, now) )
                    => /\ ~Wrote(q, "resetGoal", goal.id)
                       /\ ResetsOf(p, 1, goal.id) + ResetsOf(q, 1, goal.id) <= 1

\* the first call has reset a due goal, the second call, made the same day,
\* has fetched the goal and has not reset it
C16_Witness ==
    \E p \in Calls, q \in Calls :
        /\ q = p + 1 /\ Swept(p) /\ Swept(q)
        /\ \E j \in 1..Len(calls[q].snap) :
               LET goal == calls[q].snap[j]
               IN  /\ goal.type = "daily"
                   /\ WindowBegin("daily", calls[p].t0) = WindowBegin("daily", now)
                   /\ Wrote(p, "resetGoal", goal.id)
                   /\ ~Wrote(q, "resetGoal", goal.id)
                   /\ goal.lastReset >= calls[p].t0
                   /\ goals[goal.id].lastReset = goal.lastReset

(* ---- C17 ---- *)
\* C17: in every state, the states between the steps of overlapping
\* updateGoalsProgress, checkAndResetGoals and resetGoal calls included, the
\* current of every goal is a number that is not negative.
C17_NonNegativeProgress ==
    \A g \in 1..Len(goals) :
        /\ goals[g].current.t = "number"
        /\ goals[g].current.k # "nan"
        /\ goals[g].current.k = "fin" => goals[g].current.n >= 0

\* checkAndResetGoals has reset to 0 a goal that an updateGoalsProgress call
\* fetched with current 3 and is about to write
C17_Witness ==
    \E p \in Calls, q \in Calls, g \in 1..Len(goals) :
        /\ p # q
        /\ calls[p].fn = "updateGoalsProgress"
        /\ calls[p].pc = "updateGoal"
        /\ calls[p].snap[calls[p].idx].id = g
        /\ calls[p].snap[calls[p].idx].current = Num(3)
        /\ calls[q].fn = "checkAndResetGoals"
        /\ Wrote(q, "resetGoal", g)
        /\ goals[g].current = Num(0)

(* ---- C18 ---- *)
\* C18: no step of overlapping updateGoalsProgress, checkAndResetGoals and
\* resetGoal calls moves the lastReset of a goal backwards.
C18_MonotoneLastReset ==
    [][ \A g \in 1..Len(goals) :
            goals'[g].lastReset >= goals[g].lastReset ]_vars

\* two overlapping calls have both reset the same goal, the second reset
\* later than the first, and the goal holds the later instant
C18_Witness ==
    \E p \in Calls, q \in Calls, g \in 1..Len(goals) :
        /\ p # q
        /\ calls[p].fn = "updateGoalsProgress" /\ Wrote(p, "resetGoal", g)
        /\ calls[q].fn = "resetGoal" /\ Wrote(q, "resetGoal", g)
        /\ calls[p].pc = "updateGoal"
        /\ goals[g].lastReset = now
        /\ now > calls[p].t0 /\ now > calls[q].t0

(* ---- C19 ---- *)
\* the number a is larger than the number b
Larger(a, b) ==
    \/ a.k = "inf" /\ b.k = "fin"
    \/ a.k = "fin" /\ b.k = "fin" /\ a.n > b.n

\* the step is the write of the amount by an updateGoalsProgress invocation
\* on goal g
EngineWrites(g) ==
    \E p \in Calls :
        /\ calls[p].fn = "updateGoalsProgress"
        /\ calls[p].pc = "updateGoal"
        /\ calls[p].snap[calls[p].idx].id = g
        /\ calls'[p].pc = "loop"

\* C19: a step that leaves a goal with a larger current than it had is the
\* write of an updateGoalsProgress invocation; no other exported operation
\* raises the current of a goal.
C19_OnlyEngineRaises ==
    [][ \A g \in 1..Len(goals) :
            Larger(goals'[g].current, goals[g].current) => EngineWrites(g)
      ]_vars

(* ---- C20 ---- *)
\* the number of updates of goal g among the store calls i.. of invocation p
RECURSIVE UpdatesOf(_, _, _)
UpdatesOf(p, i, g) ==
    IF i > Len(calls[p].log) THEN 0
    ELSE (IF calls[p].log[i].op = "updateGoal" /\ calls[p].log[i].id = g
          THEN 1 ELSE 0) + UpdatesOf(p, i + 1, g)

\* every goal of the list of p whose category matches has had one write of
\* its current, after one reset when the reset was due when p was made and
\* after at most one otherwise; the other goals have had no write
WroteEachOnce(p) ==
    \A j \in 1..Len(calls[p].snap) :
        LET goal == calls[p].snap[j]
            same == Normalized(TextOf(goal.category))
                        = Normalized(TextOf(calls[p].category))
        IN  /\ UpdatesOf(p, 1, goal.id) = IF same THEN 1 ELSE 0
            /\ ResetsOf(p, 1, goal.id) <= UpdatesOf(p, 1, goal.id)
            /\ (same /\ Due(goal, calls[p].t0)) => ResetsOf(p, 1, goal.id) = 1
            /\ (same /\ ~Due(goal, now)) => ResetsOf(p, 1, goal.id) = 0
            /\ \A i \in 1..Len(calls[p].log) :
                   (IsWrite(p, i, "resetGoal") /\ calls[p].log[i].id = goal.id)
                   => (IsWrite(p, i + 1, "updateGoal")
                         /\ calls[p].log[i + 1].id = goal.id)

\* C20: when no store call rejects, every updateGoalsProgress invocation
\* made eventually returns, and an invocation that has returned has written
\* the current of every matching goal of its list exactly once, after one
\* reset when the reset was due.
C20_RunsToCompletion ==
    /\ \A p \in Calls : (calls[p].pc # "idle") ~> Done(p)
    /\ [](\A p \in Calls : Done(p) => (Resolved(p) /\ WroteEachOnce(p)))

\* an invocation has returned having written two matching goals, the weekly
\* one after a reset, the daily one, created today, without
C20_Witness ==
    \E p \in Calls :
        /\ Done(p)
        /\ Len(calls[p].snap) = 2
        /\ \E i \in 1..2, j \in 1..2 :
               /\ calls[p].snap[i].type = "weekly"
               /\ ResetsOf(p, 1, calls[p].snap[i].id) = 1
               /\ UpdatesOf(p, 1, calls[p].snap[i].id) = 1
               /\ calls[p].snap[j].type = "daily"
               /\ ResetsOf(p, 1, calls[p].snap[j].id) = 0
               /\ UpdatesOf(p, 1, calls[p].snap[j].id) = 1

(* ---- C27 ---- *)
\* C27: an invocation whose category is made of spaces only, or is empty,
\* has written no goal, the goals without a category or with a blank one
\* included.
C27_BlankCreditsNothing ==
    \A p \in Calls :
        ( /\ calls[p].fn = "updateGoalsProgress"
          /\ calls[p].category.t = "string"
          /\ Normalized(calls[p].category.s) = <<>> )
        => NoWrites(calls[p].log)

(* ---- C26 ---- *)
\* C26: when a checkAndResetGoals call and an updateGoalsProgress call have
\* both fetched a goal whose reset was due and both have returned, the goal
\* holds the amount of the updateGoalsProgress call: the reset of the sweep
\* has not landed after the write of the amount.
C26_SweepKeepsAccrual ==
    \A p \in Calls, q \in Calls, g \in 1..Len(goals) :
        ( /\ calls[p].fn = "updateGoalsProgress" /\ Resolved(p)
          /\ calls[q].fn = "checkAndResetGoals" /\ Resolved(q)
          /\ Fetched(p, g) /\ Fetched(q, g)
          /\ Due(SnapOf(p, g), calls[p].t0)
          /\ Due(SnapOf(q, g), calls[q].t0)
          /\ Wrote(p, "updateGoal", g) )
        => goals[g].current = calls[p].amount

(* ---- C25 ---- *)
\* the instants the state holds: the clock and the lastReset of the goals
Instants == {now} \cup { goals[g].lastReset : g \in 1..Len(goals) }

\* the midnight of the day of t, and its day of the week from Monday = 1 to
\* Sunday = 7 (day 2 is Monday 2 September 2024)
MidnightOf(t) == t - (t % DayLength)
ISOWeekday(t) == 1 + (((t \div DayLength) - 2) % 7)

\* C25: for every instant t, getStartOfWeek(t) is the midnight of the Monday
\* of the week of t: 6 days before the day of t when t is a Sunday, the day
\* of t itself when t is a Monday, weekday - 1 days before otherwise; it is
\* not later than t, and getStartOfWeek of it is itself.
C25_WeekBoundary ==
    \A t \in Instants :
        LET w == getStartOfWeek(t)
        IN  /\ IsMonday(w)
            /\ w <= t /\ t < w + 7 * DayLength
            /\ w = MidnightOf(t) - (ISOWeekday(t) - 1) * DayLength
            /\ ISOWeekday(t) = 7 => w = MidnightOf(t) - 6 * DayLength
            /\ ISOWeekday(t) = 1 => w = MidnightOf(t)
            /\ getStartOfWeek(w) = w

\* on Sunday 1 September at noon the week started on Monday 26 August, in
\* the month before: the weekly goal last reset on Sunday 25 August has been
\* reset
C25_Witness ==
    \E p \in Calls :
        /\ Swept(p)
        /\ now = DayLength + 1
        /\ getStartOfWeek(now) = 0 - 5 * DayLength
        /\ \E j \in 1..Len(calls[p].snap) :
               /\ calls[p].snap[j].type = "weekly"
               /\ calls[p].snap[j].lastReset = 0 - 6 * DayLength
               /\ Wrote(p, "resetGoal", calls[p].snap[j].id)

(* ---- C22 ---- *)
\* p is an importUserData invocation that resolved
Imported(p) == Resolved(p) /\ calls[p].fn = "importUserData"

\* the id of the document stored for the j-th goal of the data of p: its
\* addGoal follows those of the transactions in the log
ImportedId(p, j) == calls[p].log[Len(calls[p].data.transactions) + j].id

\* C22: after importUserData, each goal of the imported data that carries a
\* current is in the store with that current.
C22_ImportKeepsProgress ==
    \A p \in Calls :
        (Imported(p) /\ \A q \in Calls \ {p} : calls[q].pc = "idle") =>
            \A j \in 1..Len(calls[p].data.goals) :
                "current" \in DOMAIN calls[p].data.goals[j] =>
                    goals[ImportedId(p, j)].current
                        = calls[p].data.goals[j].current

(* ---- C23 ---- *)
\* the step is one of an addTransaction or importUserData invocation
RecordsStep ==
    \E p \in Calls :
        /\ calls'[p] # calls[p]
        /\ calls'[p].fn \in {"addTransaction", "importUserData"}

\* the store calls of updateGoalsProgress
EngineOps == {"getGoals", "getGoalsFailed", "resetGoal", "updateGoal",
              "writeFailed"}

\* C23: a step of addTransaction or of importUserData leaves the current
\* and the lastReset of every stored goal as they were, and these
\* invocations make none of the store calls of updateGoalsProgress.
C23_RecordsDoNotAccrue ==
    [][ RecordsStep =>
          /\ \A g \in 1..Len(goals) :
                 /\ goals'[g].current = goals[g].current
                 /\ goals'[g].lastReset = goals[g].lastReset
          /\ \A p \in Calls :
                 calls'[p].fn \in {"addTransaction", "importUserData"} =>
                     \A i \in 1..Len(calls'[p].log) :
                         calls'[p].log[i].op \notin EngineOps ]_vars

\* an import has stored two incomes of category "r" and the stored goal of
\* that category still holds 3
C23_Witness ==
    \E p \in Calls, g \in 1..Len(goals) :
        /\ Imported(p)
        /\ Len(calls[p].data.transactions) = 2
        /\ calls[p].log[2].op = "addTransaction"
        /\ \A q \in Calls \ {p} : calls[q].pc = "idle"
        /\ Matches(goals[g], calls[p].data.transactions[1].category)
        /\ goals[g].current = Num(3)
        /\ goals[g].lastReset = 0

(* ---- C24 ---- *)
\* C24: a step that adds a goal to the store adds it with current 0 and
\* lastReset = now, whatever the caller's goal object holds.
C24_CreationState ==
    [][ Len(goals') > Len(goals) =>
          /\ Len(goals') = Len(goals) + 1
          /\ goals'[Len(goals')].current = Num(0)
          /\ goals'[Len(goals')].lastReset = now
          /\ \A g \in 1..Len(goals) : goals'[g] = goals[g] ]_vars

\* a goal object carrying current 3 and lastReset 0 has been stored with
\* current 0 and the instant of its creation
C24_Witness ==
    \E p \in Calls :
        /\ calls[p].fn = "importUserData"
        /\ Len(calls[p].data.goals) = 1
        /\ "current" \in DOMAIN calls[p].data.goals[1]
        /\ calls[p].data.goals[1].current = Num(3)
        /\ calls[p].data.goals[1].lastReset = 0
        /\ \E g \in 1..Len(goals) :
               /\ Wrote(p, "addGoal", g)
               /\ goals[g].current = Num(0)
               /\ goals[g].lastReset >= calls[p].t0
               /\ calls[p].t0 >= 1

(* ---- C21 ---- *)
\* the number of updateGoalsProgress calls among the entries i.. of the log
\* of invocation p
RECURSIVE EngineCalls(_, _)
EngineCalls(p, i) ==
    IF i > Len(calls[p].log) THEN 0
    ELSE (IF calls[p].log[i].op = "updateGoalsProgress" THEN 1 ELSE 0)
         + EngineCalls(p, i + 1)

\* the session write of the endSession invocation p has been made
SessionWritten(p) ==
    /\ calls[p].fn = "endSession"
    /\ calls[p].log # <<>>
    /\ calls[p].log[1].op = "updateSession"

\* C21: once endSession has written the session, the session is completed,
\* and updateGoalsProgress has been called exactly once, with the earnings
\* and "receita", when the earnings are above 0; when they are 0 or negative
\* it has not been called and no goal is written.
C21_SessionTrigger ==
    \A p \in Calls :
        SessionWritten(p) =>
            LET e == calls[p].data.earnings
            IN  /\ calls[p].log[1].id = calls[p].data.sessionId
                /\ calls[p].log[1].status = "completed"
                /\ (e.k = "fin" /\ e.n > 0) =>
                       /\ EngineCalls(p, 1) = 1
                       /\ calls[p].log[2] = [ op |-> "updateGoalsProgress",
                                              amount |-> e,
                                              category |-> Receita ]
                /\ (e.k = "fin" /\ e.n <= 0) =>
                       /\ EngineCalls(p, 1) = 0
                       /\ NoWrites(calls[p].log)
                       /\ calls[p].pc = "done" /\ calls[p].result = "resolved"

\* endSession with earnings 2 has returned: the session is completed and the
\* goal of category "Receita " that held 3 holds 5
C21_Witness ==
    \E p \in Calls, g \in 1..Len(goals) :
        /\ SessionWritten(p) /\ Resolved(p) /\ Alone(p)
        /\ calls[p].data.earnings = Num(2)
        /\ EngineCalls(p, 1) = 1
        /\ Wrote(p, "updateGoal", g)
        /\ SnapOf(p, g).current = Num(3)
        /\ goals[g].current = Num(5)

(* ---- C28 ---- *)
\* C28: over the endSession calls made on one session, a goal is credited
\* at most once.
C28_SessionCreditedOnce ==
    \A p \in Calls, q \in Calls, g \in 1..Len(goals) :
        ( /\ p # q
          /\ calls[p].fn = "endSession" /\ calls[q].fn = "endSession"
          /\ calls[p].data.sessionId = calls[q].data.sessionId )
        => ~(Wrote(p, "updateGoal", g) /\ Wrote(q, "updateGoal", g))

(* ---- C29 ---- *)
\* the user of the requireAuth invocation p was signed in, is not an active
\* admin, and the user document has active = false
Blocked(p) ==
    /\ calls[p].fn = "requireAuth"
    /\ calls[p].pc \notin {"idle", "waitForAuth"}
    /\ ~(Done(p) /\ calls[p].result = "null" /\ calls[p].log = <<>>)
    /\ calls[p].data.admin # "active"
    /\ calls[p].data.user = "inactive"

\* C29: requireAuth that has returned for a signed-in user who is not
\* approved and not an active admin has returned null and the user is signed
\* out, whether or not a document read failed.
C29_ApprovalGate ==
    \A p \in Calls :
        (Blocked(p) /\ Done(p) /\ Latest(p)) =>
            (calls[p].result = "null" /\ ~uid)

(* ---- C30 ---- *)
\* C30: when loginAsAdmin has returned {success: false}, nobody is signed
\* in.
C30_FailedLoginSignedOut ==
    \A p \in Calls :
        ( /\ calls[p].fn = "loginAsAdmin" /\ Done(p)
          /\ calls[p].result = "failure" /\ Latest(p) )
        => ~uid

====
